---- MODULE Spec2Model ----
(***************************************************************************)
(* A model of src/net/socket.rs: the socket operation facade (socket,      *)
(* bind_*, connect_*, listen, accept/accept4, shutdown, socket_type) over  *)
(* its two backends, the libc-mediated path (cfg libc) and the direct      *)
(* syscall path (cfg linux_raw), together with the owned-handle            *)
(* bookkeeping the facade relies on.                                       *)
(*                                                                         *)
(* The kernel is the environment.  It is modelled in two ways: "any"       *)
(* (Spec), where every call may fail with any error code or succeed with   *)
(* any output (family tag, reported length, option value), and "linux"     *)
(* (LinuxSpec), where the outputs follow the socket state the calls built  *)
(* up (socket(2), bind(2), listen(2), connect(2), accept(2), unix(7)).     *)
(*                                                                         *)
(* Symbolic constants (AF_*, SOCK_*, sizes of the sockaddr layouts) have   *)
(* the values of the Linux x86_64 ABI.                                     *)
(***************************************************************************)
EXTENDS Integers, Sequences, FiniteSets, TLC

(***************************************************************************)
(* Bounds                                                                  *)
(***************************************************************************)
\* Descriptors the kernel hands out over a run: 1 .. MaxFd, never reused.
MaxFd == 3

(***************************************************************************)
(* Program constants                                                       *)
(***************************************************************************)
AF_LOCAL == 1
AF_INET == 2
AF_INET6 == 10
AF_NETLINK == 16

SOCK_STREAM == 1
SOCK_DGRAM == 2
SOCK_RAW == 3
SOCK_RDM == 4
SOCK_SEQPACKET == 5

IPPROTO_IP == 0

SHUT_RD == 0
SHUT_WR == 1
SHUT_RDWR == 2

SOCK_NONBLOCK == 2048
SOCK_CLOEXEC == 524288

\* size_of::<SocketAddrV4>() = sizeof(struct sockaddr_in)
SizeofSocketAddrV4 == 16
\* size_of::<SocketAddrV6>() = sizeof(struct sockaddr_in6)
SizeofSocketAddrV6 == 28
\* size_of::<SocketAddrUnix>() = sizeof(struct sockaddr_un)
SizeofSocketAddrUnix == 110
\* size_of::<sockaddr_storage>(), the capacity of the raw address buffer
SizeofStorage == 128
\* size_of::<SocketType>(), a #[repr(u32)] enum
SizeofSocketType == 4
\* storage.ss_family occupies the bytes [0, SsFamilyEnd) of the buffer
SsFamilyEnd == 2

\* The closed enums of the facade, by their numeric constants.
SocketType == {SOCK_STREAM, SOCK_DGRAM, SOCK_SEQPACKET, SOCK_RAW, SOCK_RDM}
AddressFamily == {AF_LOCAL, AF_INET, AF_INET6, AF_NETLINK}
Shutdown == {SHUT_RD, SHUT_WR, SHUT_RDWR}

(***************************************************************************)
(* Inputs drawn by the callers, and outputs drawn by the "any" kernel      *)
(***************************************************************************)
Fds == 1 .. MaxFd

\* The builds: cfg(libc) on a target with accept4, cfg(libc) on ios/macos
\* (plain accept), cfg(linux_raw).
Builds == {"libc", "libc_apple", "linux_raw"}

\* (domain, type) pairs the callers of socket() use.
SocketDomains == {AF_LOCAL, AF_INET, AF_INET6}
SocketKinds == {SOCK_STREAM, SOCK_DGRAM}
\* The domains and the type the callers use in the runs over the "linux"
\* kernel.
LinuxSocketDomains == {AF_LOCAL, AF_INET}
LinuxSocketKinds == {SOCK_STREAM}

\* AcceptFlags values the callers of accept4 use.
FlagSets == {0, SOCK_NONBLOCK + SOCK_CLOEXEC}

Backlogs == {1}

NoName == ""
NoAddr == [family |-> 0, name |-> NoName]

\* Typed addresses the callers pass, one set per family-specific entry point.
UnixAddrs == {[family |-> AF_LOCAL, name |-> "/tmp/core_test.sock"]}
V4Addrs == {[family |-> AF_INET, name |-> "127.0.0.1:8080"]}
V6Addrs == {[family |-> AF_INET6, name |-> "::1:9090"]}
\* The addresses the callers pass in the runs over the "any" kernel: a second
\* value in each family.
AnyUnixAddrs ==
    UnixAddrs \cup {[family |-> AF_LOCAL, name |-> "/tmp/peer.sock"]}
AnyV4Addrs ==
    V4Addrs \cup {[family |-> AF_INET, name |-> "10.0.0.1:80"]}
AnyV6Addrs ==
    V6Addrs \cup {[family |-> AF_INET6, name |-> "fe80::1:80"]}

\* Error codes the "any" kernel reports: EAGAIN, EINVAL.
Errnos == {11, 22}

\* Family tags a kernel may write: AF_UNSPEC, the three decoded families,
\* and one the decoder does not know.
Tags == {0, AF_LOCAL, AF_INET, AF_INET6, AF_NETLINK}

\* Reported address lengths: 0, the capacity, and each size the decoder
\* compares with, together with the length one below it.
Lens ==
    {0, SizeofStorage} \cup
    UNION {{s - 1, s} :
           s \in {SsFamilyEnd, SizeofSocketAddrV4, SizeofSocketAddrV6,
                  SizeofSocketAddrUnix}}

\* SO_TYPE values a kernel may report: the five of SocketType and
\* SOCK_DCCP (6).
SoTypeValues == SocketType \cup {6}

\* Option lengths a kernel may report for SO_TYPE.
OutLens == {SizeofSocketType - 1, SizeofSocketType, SizeofSocketType + 1}

VARIABLES
    build,      \* the backend and target chosen for the whole build
    kernel,     \* "any" or "linux": how the environment answers
    nextFd,     \* the next descriptor the kernel hands out
    owners,     \* owners[d]: live OwnedFd values wrapping descriptor d
    released,   \* released[d]: close(d) calls made so far
    ksock,      \* the kernel's socket table ("linux" kernel)
    last        \* the last facade call: what it asked, got and returned

vars == <<build, kernel, nextFd, owners, released, ksock, last>>

(***************************************************************************)
(* Results of the facade: io::Result<T>, or a panic unwinding out of it    *)
(***************************************************************************)
Res(kind, err, fd, variant, stype, why) ==
    [kind |-> kind, err |-> err, fd |-> fd, variant |-> variant,
     stype |-> stype, why |-> why]

Err(e) == Res("err", e, -1, "none", -1, "")
OkUnit == Res("ok", 0, -1, "none", -1, "")
OkFd(fd) == Res("ok", 0, fd, "none", -1, "")
OkAccept(fd, variant) == Res("ok", 0, fd, variant, -1, "")
OkType(t) == Res("ok", 0, -1, "none", t, "")
Panic(why) == Res("panic", 0, -1, "none", -1, why)
NoRes == Res("none", 0, -1, "none", -1, "")

(***************************************************************************)
(* Kernel calls and kernel outcomes                                        *)
(***************************************************************************)
KCall(name, fd, addr, addrlen, args) ==
    [name |-> name, fd |-> fd, addr |-> addr, addrlen |-> addrlen,
     args |-> args]

\* What one kernel call did: failed with an error code, or succeeded with a
\* value (a descriptor, or 0), a family tag and a length written through the
\* out-pointers, and an option value.
KFail(e) ==
    [fail |-> TRUE, code |-> e, val |-> -1, tag |-> 0, len |-> 0, opt |-> 0]
KOk(v, tag, len, opt) ==
    [fail |-> FALSE, code |-> 0, val |-> v, tag |-> tag, len |-> len,
     opt |-> opt]
NoK == KOk(-1, 0, 0, 0)

\* The C library's convention: -1 and errno on failure.
LibcRet(k) == IF k.fail THEN -1 ELSE k.val
LibcErrno(k) == k.code
\* The raw syscall convention: the negated error code on failure.
RawRet(k) == IF k.fail THEN 0 - k.code ELSE k.val

\* crate::negone_err: -1 is a failure carrying errno, anything else the value.
negone_err(ret, errno) ==
    IF ret = -1 THEN Err(errno) ELSE OkFd(ret)

\* crate::zero_ok: 0 is success, anything else a failure carrying errno.
zero_ok(ret, errno) ==
    IF ret = 0 THEN OkUnit ELSE Err(errno)

\* crate::linux_raw: a return value in -4095 .. -1 is the negated error code.
raw_result(ret) ==
    IF ret < 0 /\ ret >= -4095 THEN Err(0 - ret) ELSE OkFd(ret)

\* What a facade function did: its result, the kernel calls it made in order,
\* the descriptors it wrapped in an OwnedFd (from_raw_fd), the OwnedFd values
\* it dropped itself (unwinding), and the end of the prefix of the raw buffer
\* it interpreted.
Eff(res, calls, created, dropped, readEnd) ==
    [res |-> res, calls |-> calls, created |-> created, dropped |-> dropped,
     readEnd |-> readEnd]

\* OwnedFd's destructor.
close(fd) == KCall("close", fd, NoAddr, 0, <<>>)

(***************************************************************************)
(* socket                                                                  *)
(***************************************************************************)
\* _socket with from_raw_fd applied to the return value before the error
\* check.
_socket_libc_wrap_first(domain, type_, protocol, k) ==
    LET call == KCall("socket", -1, NoAddr, 0, <<domain, type_, protocol>>)
        raw_fd == negone_err(LibcRet(k), LibcErrno(k))
    IN  IF raw_fd.kind = "err"
        THEN Eff(raw_fd, <<call, close(LibcRet(k))>>,
                 {LibcRet(k)}, {LibcRet(k)}, 0)
        ELSE Eff(OkFd(raw_fd.fd), <<call>>, {raw_fd.fd}, {}, 0)

\* cfg(libc): negone_err(libc::socket(..))?, then OwnedFd::from_raw_fd.
_socket_libc(domain, type_, protocol, k) ==
    LET call == KCall("socket", -1, NoAddr, 0, <<domain, type_, protocol>>)
        raw_fd == negone_err(LibcRet(k), LibcErrno(k))
    IN  IF raw_fd.kind = "err"
        THEN Eff(raw_fd, <<call>>, {}, {}, 0)
        ELSE Eff(OkFd(raw_fd.fd), <<call>>, {raw_fd.fd}, {}, 0)

\* cfg(linux_raw): crate::linux_raw::socket.
_socket_linux_raw(domain, type_, protocol, k) ==
    LET call == KCall("socket", -1, NoAddr, 0, <<domain, type_, protocol>>)
        r == raw_result(RawRet(k))
    IN  IF r.kind = "err"
        THEN Eff(r, <<call>>, {}, {}, 0)
        ELSE Eff(OkFd(r.fd), <<call>>, {r.fd}, {}, 0)

socket(domain, type_, protocol, k) ==
    IF build = "linux_raw"
    THEN _socket_linux_raw(domain, type_, protocol, k)
    ELSE _socket_libc(domain, type_, protocol, k)

(***************************************************************************)
(* bind_un, bind_in, bind_in6                                              *)
(***************************************************************************)
_bind_un_libc(sockfd, addr, k) ==
    Eff(zero_ok(LibcRet(k), LibcErrno(k)),
        <<KCall("bind", sockfd, addr, SizeofSocketAddrUnix, <<>>)>>,
        {}, {}, 0)

_bind_un_linux_raw(sockfd, addr, k) ==
    LET r == raw_result(RawRet(k))
    IN  Eff(IF r.kind = "err" THEN r ELSE OkUnit,
            <<KCall("bind", sockfd, addr, SizeofSocketAddrUnix, <<>>)>>,
            {}, {}, 0)

bind_un(sockfd, addr, k) ==
    IF build = "linux_raw"
    THEN _bind_un_linux_raw(sockfd, addr, k)
    ELSE _bind_un_libc(sockfd, addr, k)

_bind_in_libc(sockfd, addr, k) ==
    Eff(zero_ok(LibcRet(k), LibcErrno(k)),
        <<KCall("bind", sockfd, addr, SizeofSocketAddrV4, <<>>)>>,
        {}, {}, 0)

_bind_in_linux_raw(sockfd, addr, k) ==
    LET r == raw_result(RawRet(k))
    IN  Eff(IF r.kind = "err" THEN r ELSE OkUnit,
            <<KCall("bind", sockfd, addr, SizeofSocketAddrV4, <<>>)>>,
            {}, {}, 0)

bind_in(sockfd, addr, k) ==
    IF build = "linux_raw"
    THEN _bind_in_linux_raw(sockfd, addr, k)
    ELSE _bind_in_libc(sockfd, addr, k)

\* _bind_in6 passing the size of SocketAddrV4.
_bind_in6_libc_v4_len(sockfd, addr, k) ==
    Eff(zero_ok(LibcRet(k), LibcErrno(k)),
        <<KCall("bind", sockfd, addr, SizeofSocketAddrV4, <<>>)>>,
        {}, {}, 0)

_bind_in6_libc(sockfd, addr, k) ==
    Eff(zero_ok(LibcRet(k), LibcErrno(k)),
        <<KCall("bind", sockfd, addr, SizeofSocketAddrV6, <<>>)>>,
        {}, {}, 0)

_bind_in6_linux_raw(sockfd, addr, k) ==
    LET r == raw_result(RawRet(k))
    IN  Eff(IF r.kind = "err" THEN r ELSE OkUnit,
            <<KCall("bind", sockfd, addr, SizeofSocketAddrV6, <<>>)>>,
            {}, {}, 0)

bind_in6(sockfd, addr, k) ==
    IF build = "linux_raw"
    THEN _bind_in6_linux_raw(sockfd, addr, k)
    ELSE _bind_in6_libc(sockfd, addr, k)

(***************************************************************************)
(* connect_un, connect_in, connect_in6                                     *)
(***************************************************************************)
_connect_un_libc(sockfd, addr, k) ==
    Eff(zero_ok(LibcRet(k), LibcErrno(k)),
        <<KCall("connect", sockfd, addr, SizeofSocketAddrUnix, <<>>)>>,
        {}, {}, 0)

_connect_un_linux_raw(sockfd, addr, k) ==
    LET r == raw_result(RawRet(k))
    IN  Eff(IF r.kind = "err" THEN r ELSE OkUnit,
            <<KCall("connect", sockfd, addr, SizeofSocketAddrUnix, <<>>)>>,
            {}, {}, 0)

connect_un(sockfd, addr, k) ==
    IF build = "linux_raw"
    THEN _connect_un_linux_raw(sockfd, addr, k)
    ELSE _connect_un_libc(sockfd, addr, k)

_connect_in_libc(sockfd, addr, k) ==
    Eff(zero_ok(LibcRet(k), LibcErrno(k)),
        <<KCall("connect", sockfd, addr, SizeofSocketAddrV4, <<>>)>>,
        {}, {}, 0)

_connect_in_linux_raw(sockfd, addr, k) ==
    LET r == raw_result(RawRet(k))
    IN  Eff(IF r.kind = "err" THEN r ELSE OkUnit,
            <<KCall("connect", sockfd, addr, SizeofSocketAddrV4, <<>>)>>,
            {}, {}, 0)

connect_in(sockfd, addr, k) ==
    IF build = "linux_raw"
    THEN _connect_in_linux_raw(sockfd, addr, k)
    ELSE _connect_in_libc(sockfd, addr, k)

_connect_in6_libc(sockfd, addr, k) ==
    Eff(zero_ok(LibcRet(k), LibcErrno(k)),
        <<KCall("connect", sockfd, addr, SizeofSocketAddrV6, <<>>)>>,
        {}, {}, 0)

_connect_in6_linux_raw(sockfd, addr, k) ==
    LET r == raw_result(RawRet(k))
    IN  Eff(IF r.kind = "err" THEN r ELSE OkUnit,
            <<KCall("connect", sockfd, addr, SizeofSocketAddrV6, <<>>)>>,
            {}, {}, 0)

connect_in6(sockfd, addr, k) ==
    IF build = "linux_raw"
    THEN _connect_in6_linux_raw(sockfd, addr, k)
    ELSE _connect_in6_libc(sockfd, addr, k)

(***************************************************************************)
(* listen, shutdown                                                        *)
(***************************************************************************)
_listen_libc(sockfd, backlog, k) ==
    Eff(zero_ok(LibcRet(k), LibcErrno(k)),
        <<KCall("listen", sockfd, NoAddr, 0, <<backlog>>)>>,
        {}, {}, 0)

_listen_linux_raw(sockfd, backlog, k) ==
    LET r == raw_result(RawRet(k))
    IN  Eff(IF r.kind = "err" THEN r ELSE OkUnit,
            <<KCall("listen", sockfd, NoAddr, 0, <<backlog>>)>>,
            {}, {}, 0)

listen(sockfd, backlog, k) ==
    IF build = "linux_raw"
    THEN _listen_linux_raw(sockfd, backlog, k)
    ELSE _listen_libc(sockfd, backlog, k)

_shutdown_libc(sockfd, how, k) ==
    Eff(zero_ok(LibcRet(k), LibcErrno(k)),
        <<KCall("shutdown", sockfd, NoAddr, 0, <<how>>)>>,
        {}, {}, 0)

_shutdown_linux_raw(sockfd, how, k) ==
    LET r == raw_result(RawRet(k))
    IN  Eff(IF r.kind = "err" THEN r ELSE OkUnit,
            <<KCall("shutdown", sockfd, NoAddr, 0, <<how>>)>>,
            {}, {}, 0)

shutdown(sockfd, how, k) ==
    IF build = "linux_raw"
    THEN _shutdown_linux_raw(sockfd, how, k)
    ELSE _shutdown_libc(sockfd, how, k)

(***************************************************************************)
(* accept, accept4                                                         *)
(***************************************************************************)
\* What a decode of the raw address buffer gives: a SocketAddr variant, or a
\* panic, and the end of the prefix of the buffer it interpreted.
Decoded(variant, why, readEnd) ==
    [variant |-> variant, why |-> why, readEnd |-> readEnd]

\* The value read from storage.ss_family after a successful call that
\* reported a length of k.len: the tag the kernel wrote when the field lies
\* within the reported length, and otherwise the uninitialized bytes of the
\* MaybeUninit buffer, which may hold any value.
ss_family_read(k) ==
    IF k.len >= SsFamilyEnd THEN {k.tag} ELSE Tags

\* The match with the AF_INET6 arm asserting the size of SocketAddrV4.
match_ss_family_libc_v6_as_v4(ss_family, len) ==
    CASE ss_family = AF_INET ->
           IF len >= SizeofSocketAddrV4
           THEN Decoded("V4", "", SizeofSocketAddrV4)
           ELSE Decoded("none", "length", SsFamilyEnd)
      [] ss_family = AF_INET6 ->
           IF len >= SizeofSocketAddrV4
           THEN Decoded("V6", "", SizeofSocketAddrV6)
           ELSE Decoded("none", "length", SsFamilyEnd)
      [] ss_family = AF_LOCAL ->
           IF len >= SizeofSocketAddrUnix
           THEN Decoded("Unix", "", SizeofSocketAddrUnix)
           ELSE Decoded("none", "length", SsFamilyEnd)
      [] OTHER -> Decoded("none", "family", SsFamilyEnd)

\* The match with > in place of >= in the AF_LOCAL arm.
match_ss_family_libc_strict(ss_family, len) ==
    CASE ss_family = AF_INET ->
           IF len >= SizeofSocketAddrV4
           THEN Decoded("V4", "", SizeofSocketAddrV4)
           ELSE Decoded("none", "length", SsFamilyEnd)
      [] ss_family = AF_INET6 ->
           IF len >= SizeofSocketAddrV6
           THEN Decoded("V6", "", SizeofSocketAddrV6)
           ELSE Decoded("none", "length", SsFamilyEnd)
      [] ss_family = AF_LOCAL ->
           IF len > SizeofSocketAddrUnix
           THEN Decoded("Unix", "", SizeofSocketAddrUnix)
           ELSE Decoded("none", "length", SsFamilyEnd)
      [] OTHER -> Decoded("none", "family", SsFamilyEnd)

\* cfg(libc), not ios/macos: match i32::from(storage.ss_family) { .. }.
match_ss_family_libc(ss_family, len) ==
    CASE ss_family = AF_INET ->
           IF len >= SizeofSocketAddrV4
           THEN Decoded("V4", "", SizeofSocketAddrV4)
           ELSE Decoded("none", "length", SsFamilyEnd)
      [] ss_family = AF_INET6 ->
           IF len >= SizeofSocketAddrV6
           THEN Decoded("V6", "", SizeofSocketAddrV6)
           ELSE Decoded("none", "length", SsFamilyEnd)
      [] ss_family = AF_LOCAL ->
           IF len >= SizeofSocketAddrUnix
           THEN Decoded("Unix", "", SizeofSocketAddrUnix)
           ELSE Decoded("none", "length", SsFamilyEnd)
      [] OTHER -> Decoded("none", "family", SsFamilyEnd)

\* cfg(libc), ios/macos: the same match in _accept.
match_ss_family_apple(ss_family, len) ==
    CASE ss_family = AF_INET ->
           IF len >= SizeofSocketAddrV4
           THEN Decoded("V4", "", SizeofSocketAddrV4)
           ELSE Decoded("none", "length", SsFamilyEnd)
      [] ss_family = AF_INET6 ->
           IF len >= SizeofSocketAddrV6
           THEN Decoded("V6", "", SizeofSocketAddrV6)
           ELSE Decoded("none", "length", SsFamilyEnd)
      [] ss_family = AF_LOCAL ->
           IF len >= SizeofSocketAddrUnix
           THEN Decoded("Unix", "", SizeofSocketAddrUnix)
           ELSE Decoded("none", "length", SsFamilyEnd)
      [] OTHER -> Decoded("none", "family", SsFamilyEnd)

\* The match with a default arm that decodes as Unix instead of panicking.
match_ss_family_linux_raw_default(ss_family, len) ==
    CASE ss_family = AF_INET ->
           IF len >= SizeofSocketAddrV4
           THEN Decoded("V4", "", SizeofSocketAddrV4)
           ELSE Decoded("none", "length", SsFamilyEnd)
      [] ss_family = AF_INET6 ->
           IF len >= SizeofSocketAddrV6
           THEN Decoded("V6", "", SizeofSocketAddrV6)
           ELSE Decoded("none", "length", SsFamilyEnd)
      [] OTHER ->
           IF len >= SizeofSocketAddrUnix
           THEN Decoded("Unix", "", SizeofSocketAddrUnix)
           ELSE Decoded("none", "length", SsFamilyEnd)

\* cfg(linux_raw): match u32::from(storage.ss_family) { .. }.
match_ss_family_linux_raw(ss_family, len) ==
    CASE ss_family = AF_INET ->
           IF len >= SizeofSocketAddrV4
           THEN Decoded("V4", "", SizeofSocketAddrV4)
           ELSE Decoded("none", "length", SsFamilyEnd)
      [] ss_family = AF_INET6 ->
           IF len >= SizeofSocketAddrV6
           THEN Decoded("V6", "", SizeofSocketAddrV6)
           ELSE Decoded("none", "length", SsFamilyEnd)
      [] ss_family = AF_LOCAL ->
           IF len >= SizeofSocketAddrUnix
           THEN Decoded("Unix", "", SizeofSocketAddrUnix)
           ELSE Decoded("none", "length", SsFamilyEnd)
      [] OTHER -> Decoded("none", "family", SsFamilyEnd)

\* cfg(libc), ios/macos.  owned_fd exists before the match, so a panic in the
\* match drops it while unwinding.
_accept(sockfd, k, ss_family) ==
    LET call == KCall("accept", sockfd, NoAddr, SizeofStorage, <<>>)
        raw_fd == negone_err(LibcRet(k), LibcErrno(k))
        addr == match_ss_family_apple(ss_family, k.len)
    IN  IF raw_fd.kind = "err"
        THEN Eff(raw_fd, <<call>>, {}, {}, 0)
        ELSE IF addr.why # ""
        THEN Eff(Panic(addr.why), <<call, close(raw_fd.fd)>>,
                 {raw_fd.fd}, {raw_fd.fd}, addr.readEnd)
        ELSE Eff(OkAccept(raw_fd.fd, addr.variant), <<call>>,
                 {raw_fd.fd}, {}, addr.readEnd)

\* _accept4 with the OwnedFd built after the match: a panic in the match
\* leaves the descriptor without an owner.
_accept4_libc_late_owner(sockfd, flags, k, ss_family) ==
    LET call == KCall("accept4", sockfd, NoAddr, SizeofStorage, <<flags>>)
        raw_fd == negone_err(LibcRet(k), LibcErrno(k))
        addr == match_ss_family_libc(ss_family, k.len)
    IN  IF raw_fd.kind = "err"
        THEN Eff(raw_fd, <<call>>, {}, {}, 0)
        ELSE IF addr.why # ""
        THEN Eff(Panic(addr.why), <<call>>, {}, {}, addr.readEnd)
        ELSE Eff(OkAccept(raw_fd.fd, addr.variant), <<call>>,
                 {raw_fd.fd}, {}, addr.readEnd)

\* _accept4 that calls plain accept once more when accept4 fails.
_accept4_libc_fallback(sockfd, flags, k, ss_family) ==
    LET call == KCall("accept4", sockfd, NoAddr, SizeofStorage, <<flags>>)
        again == KCall("accept", sockfd, NoAddr, SizeofStorage, <<>>)
        raw_fd == negone_err(LibcRet(k), LibcErrno(k))
        addr == match_ss_family_libc(ss_family, k.len)
    IN  IF raw_fd.kind = "err"
        THEN Eff(raw_fd, <<call, again>>, {}, {}, 0)
        ELSE IF addr.why # ""
        THEN Eff(Panic(addr.why), <<call, close(raw_fd.fd)>>,
                 {raw_fd.fd}, {raw_fd.fd}, addr.readEnd)
        ELSE Eff(OkAccept(raw_fd.fd, addr.variant), <<call>>,
                 {raw_fd.fd}, {}, addr.readEnd)

\* cfg(libc), not ios/macos.
_accept4_libc(sockfd, flags, k, ss_family) ==
    LET call == KCall("accept4", sockfd, NoAddr, SizeofStorage, <<flags>>)
        raw_fd == negone_err(LibcRet(k), LibcErrno(k))
        addr == match_ss_family_libc(ss_family, k.len)
    IN  IF raw_fd.kind = "err"
        THEN Eff(raw_fd, <<call>>, {}, {}, 0)
        ELSE IF addr.why # ""
        THEN Eff(Panic(addr.why), <<call, close(raw_fd.fd)>>,
                 {raw_fd.fd}, {raw_fd.fd}, addr.readEnd)
        ELSE Eff(OkAccept(raw_fd.fd, addr.variant), <<call>>,
                 {raw_fd.fd}, {}, addr.readEnd)

\* cfg(linux_raw): crate::linux_raw::accept4 returns the owned handle, the
\* storage and the length, or the error.
_accept4_linux_raw(sockfd, flags, k, ss_family) ==
    LET call == KCall("accept4", sockfd, NoAddr, SizeofStorage, <<flags>>)
        r == raw_result(RawRet(k))
        addr == match_ss_family_linux_raw(ss_family, k.len)
    IN  IF r.kind = "err"
        THEN Eff(r, <<call>>, {}, {}, 0)
        ELSE IF addr.why # ""
        THEN Eff(Panic(addr.why), <<call, close(r.fd)>>,
                 {r.fd}, {r.fd}, addr.readEnd)
        ELSE Eff(OkAccept(r.fd, addr.variant), <<call>>,
                 {r.fd}, {}, addr.readEnd)

accept(sockfd, k, ss_family) ==
    _accept(sockfd, k, ss_family)

accept4(sockfd, flags, k, ss_family) ==
    IF build = "linux_raw"
    THEN _accept4_linux_raw(sockfd, flags, k, ss_family)
    ELSE _accept4_libc(sockfd, flags, k, ss_family)

(***************************************************************************)
(* socket_type                                                             *)
(***************************************************************************)
SOL_SOCKET == 1
SO_TYPE == 3

\* buffer.assume_init() on a MaybeUninit<SocketType> holding the u32 v: the
\* member with that constant; for a v that is no member's constant the
\* result is an invalid enum value, which the build may treat as v itself or
\* as any member.
assume_init(v) ==
    IF v \in SocketType THEN {v} ELSE {v} \cup SocketType

\* _socket_type that only rejects an option shorter than SocketType.
_socket_type_libc_short_only(fd, k, ty) ==
    LET call == KCall("getsockopt", fd, NoAddr, SizeofSocketType,
                      <<SOL_SOCKET, SO_TYPE>>)
        r == zero_ok(LibcRet(k), LibcErrno(k))
        out_len == k.len
    IN  IF r.kind = "err"
        THEN Eff(r, <<call>>, {}, {}, 0)
        ELSE IF out_len < SizeofSocketType
        THEN Eff(Panic("size"), <<call>>, {}, {}, 0)
        ELSE Eff(OkType(ty), <<call>>, {}, {}, SizeofSocketType)

\* cfg(libc): getsockopt(SOL_SOCKET, SO_TYPE), assert_eq! on the size,
\* assume_init.
_socket_type_libc(fd, k, ty) ==
    LET call == KCall("getsockopt", fd, NoAddr, SizeofSocketType,
                      <<SOL_SOCKET, SO_TYPE>>)
        r == zero_ok(LibcRet(k), LibcErrno(k))
        out_len == k.len
    IN  IF r.kind = "err"
        THEN Eff(r, <<call>>, {}, {}, 0)
        ELSE IF out_len # SizeofSocketType
        THEN Eff(Panic("size"), <<call>>, {}, {}, 0)
        ELSE Eff(OkType(ty), <<call>>, {}, {}, SizeofSocketType)

_socket_type_linux_raw(fd, k, ty) ==
    LET call == KCall("getsockopt", fd, NoAddr, SizeofSocketType,
                      <<SOL_SOCKET, SO_TYPE>>)
        r == raw_result(RawRet(k))
        out_len == k.len
    IN  IF r.kind = "err"
        THEN Eff(r, <<call>>, {}, {}, 0)
        ELSE IF out_len # SizeofSocketType
        THEN Eff(Panic("size"), <<call>>, {}, {}, 0)
        ELSE Eff(OkType(ty), <<call>>, {}, {}, SizeofSocketType)

socket_type(fd, k, ty) ==
    IF build = "linux_raw"
    THEN _socket_type_linux_raw(fd, k, ty)
    ELSE _socket_type_libc(fd, k, ty)

(***************************************************************************)
(* The kernel                                                              *)
(***************************************************************************)
NoSock ==
    [open |-> FALSE, family |-> 0, type |-> 0, bound |-> NoName,
     listening |-> FALSE, backlog |-> 0, connected |-> FALSE,
     pending |-> <<>>]

\* The length the kernel reports for a peer address (unix(7): an unnamed
\* socket's address is sizeof(sa_family_t) long, a pathname socket's
\* offsetof(sun_path) + strlen(path) + 1; sockaddr_in and sockaddr_in6 are
\* reported whole).
PeerAddrLen(family, name) ==
    CASE family = AF_INET -> SizeofSocketAddrV4
      [] family = AF_INET6 -> SizeofSocketAddrV6
      [] OTHER -> IF name = NoName
                  THEN SsFamilyEnd
                  ELSE SsFamilyEnd + Len(name) + 1

\* The address lengths bind and connect take for a socket of a family.
AddrLenOk(family, addrlen) ==
    CASE family = AF_INET -> addrlen >= SizeofSocketAddrV4
      [] family = AF_INET6 -> addrlen >= SizeofSocketAddrV6
      [] OTHER -> addrlen > SsFamilyEnd /\ addrlen <= SizeofSocketAddrUnix

AllocOutcomes(tag, len) ==
    IF nextFd <= MaxFd THEN {KOk(nextFd, tag, len, 0)} ELSE {KFail(24)}

\* A kernel that may answer anything.
AnyOutcomes(call) ==
    {KFail(e) : e \in Errnos} \cup
    CASE call.name = "socket" ->
           IF nextFd <= MaxFd THEN {KOk(nextFd, 0, 0, 0)} ELSE {}
      [] call.name \in {"accept", "accept4"} ->
           IF nextFd <= MaxFd
           THEN {KOk(nextFd, t, l, 0) : t \in Tags, l \in Lens}
           ELSE {}
      [] call.name = "getsockopt" ->
           {KOk(0, 0, l, v) : l \in OutLens, v \in SoTypeValues}
      [] OTHER -> {KOk(0, 0, 0, 0)}

\* A kernel that answers from its socket table.
LinuxOutcomes(call) ==
    LET s == IF call.fd \in Fds THEN ksock[call.fd] ELSE NoSock
    IN  CASE call.name = "socket" ->
               {KFail(24)} \cup AllocOutcomes(0, 0)
          [] call.name = "bind" ->
               IF \/ call.addr.family # s.family
                  \/ s.bound # NoName
                  \/ ~AddrLenOk(s.family, call.addrlen)
               THEN {KFail(22)}
               ELSE IF \E d \in Fds : ksock[d].open /\ ksock[d].bound = call.addr.name
               THEN {KFail(98)}
               ELSE {KOk(0, 0, 0, 0)}
          [] call.name = "listen" ->
               IF /\ s.type = SOCK_STREAM
                  /\ ~s.connected
                  /\ (s.family # AF_LOCAL \/ s.bound # NoName)
               THEN {KOk(0, 0, 0, 0)}
               ELSE {KFail(22)}
          [] call.name = "connect" ->
               IF \/ call.addr.family # s.family
                  \/ ~AddrLenOk(s.family, call.addrlen)
                  \/ s.type # SOCK_STREAM
                  \/ s.connected
                  \/ s.listening
               THEN {KFail(22)}
               ELSE IF \E d \in Fds :
                          /\ ksock[d].open
                          /\ ksock[d].listening
                          /\ ksock[d].family = s.family
                          /\ ksock[d].bound = call.addr.name
                          /\ Len(ksock[d].pending) <= ksock[d].backlog
               THEN {KOk(0, 0, 0, 0)}
               ELSE {KFail(111)}
          [] call.name \in {"accept", "accept4"} ->
               IF ~s.listening
               THEN {KFail(22)}
               ELSE IF s.pending = <<>>
               THEN {KFail(11)}
               ELSE AllocOutcomes(s.family,
                                  PeerAddrLen(s.family, Head(s.pending)))
          [] call.name = "shutdown" ->
               IF s.connected THEN {KOk(0, 0, 0, 0)} ELSE {KFail(107)}
          [] call.name = "getsockopt" ->
               {KOk(0, 0, SizeofSocketType, s.type)}
          [] OTHER -> {KOk(0, 0, 0, 0)}

KernelOutcomes(call) ==
    IF kernel = "any" THEN AnyOutcomes(call) ELSE LinuxOutcomes(call)

\* The socket table after a call that succeeded.
LinuxApply(call, k) ==
    CASE call.name = "socket" ->
           [ksock EXCEPT ![k.val] =
               [NoSock EXCEPT !.open = TRUE, !.family = call.args[1],
                              !.type = call.args[2]]]
      [] call.name = "bind" ->
           [ksock EXCEPT ![call.fd].bound = call.addr.name]
      [] call.name = "listen" ->
           [ksock EXCEPT ![call.fd].listening = TRUE,
                         ![call.fd].backlog = call.args[1]]
      [] call.name = "connect" ->
           LET l == CHOOSE d \in Fds :
                        /\ ksock[d].open
                        /\ ksock[d].listening
                        /\ ksock[d].family = ksock[call.fd].family
                        /\ ksock[d].bound = call.addr.name
           IN  [ksock EXCEPT ![call.fd].connected = TRUE,
                             ![l].pending = Append(@, ksock[call.fd].bound)]
      [] call.name \in {"accept", "accept4"} ->
           [ksock EXCEPT ![call.fd].pending = Tail(@),
                         ![k.val] =
               [NoSock EXCEPT !.open = TRUE,
                              !.family = ksock[call.fd].family,
                              !.type = ksock[call.fd].type,
                              !.connected = TRUE]]
      [] OTHER -> ksock

KernelApply(call, k) ==
    IF kernel = "any" \/ k.fail THEN ksock ELSE LinuxApply(call, k)

KernelClose(table, fds) ==
    IF kernel = "any"
    THEN table
    ELSE [d \in Fds |->
            IF d \in fds THEN [table[d] EXCEPT !.open = FALSE] ELSE table[d]]

(***************************************************************************)
(* The state machine                                                       *)
(***************************************************************************)
NoLast ==
    [op |-> "none", fd |-> -1, addr |-> NoAddr, k |-> NoK, seen |-> 0,
     res |-> NoRes,
     calls |-> <<>>, created |-> {}, dropped |-> {}, readEnd |-> 0]

Init ==
    /\ build \in Builds
    /\ kernel = "any"
    /\ nextFd = 1
    /\ owners = [d \in Fds |-> 0]
    /\ released = [d \in Fds |-> 0]
    /\ ksock = [d \in Fds |-> NoSock]
    /\ last = NoLast

\* One facade call took effect: called with the handle fd and the address
\* addr, the kernel call it issued had the outcome k, the function did e.
CommitAddr(op, fd, addr, k, seen, e) ==
    LET call == Head(e.calls)
    IN  /\ last' = [op |-> op, fd |-> fd, addr |-> addr, k |-> k,
                    seen |-> seen,
                    res |-> e.res, calls |-> e.calls,
                    created |-> e.created, dropped |-> e.dropped,
                    readEnd |-> e.readEnd]
        /\ nextFd' = IF ~k.fail /\ call.name \in {"socket", "accept", "accept4"}
                     THEN nextFd + 1
                     ELSE nextFd
        /\ owners' = [d \in Fds |->
                        owners[d] + (IF d \in e.created THEN 1 ELSE 0)
                                  - (IF d \in e.dropped THEN 1 ELSE 0)]
        /\ released' = [d \in Fds |->
                          released[d] + (IF d \in e.dropped THEN 1 ELSE 0)]
        /\ ksock' = KernelClose(KernelApply(call, k), e.dropped)
        /\ UNCHANGED <<build, kernel>>

\* A facade call that takes no address.
Commit(op, fd, k, seen, e) ==
    CommitAddr(op, fd, NoAddr, k, seen, e)

\* The call a facade function issues first does not depend on its outcome.
Issued(e) == Head(e.calls)

Socket(domain, type_, protocol) ==
    \E k \in KernelOutcomes(Issued(socket(domain, type_, protocol, NoK))) :
        Commit("socket", -1, k, 0, socket(domain, type_, protocol, k))

BindUn(d, addr) ==
    /\ owners[d] >= 1
    /\ \E k \in KernelOutcomes(Issued(bind_un(d, addr, NoK))) :
           CommitAddr("bind_un", d, addr, k, 0, bind_un(d, addr, k))

BindIn(d, addr) ==
    /\ owners[d] >= 1
    /\ \E k \in KernelOutcomes(Issued(bind_in(d, addr, NoK))) :
           CommitAddr("bind_in", d, addr, k, 0, bind_in(d, addr, k))

BindIn6(d, addr) ==
    /\ owners[d] >= 1
    /\ \E k \in KernelOutcomes(Issued(bind_in6(d, addr, NoK))) :
           CommitAddr("bind_in6", d, addr, k, 0, bind_in6(d, addr, k))

ConnectUn(d, addr) ==
    /\ owners[d] >= 1
    /\ \E k \in KernelOutcomes(Issued(connect_un(d, addr, NoK))) :
           CommitAddr("connect_un", d, addr, k, 0, connect_un(d, addr, k))

ConnectIn(d, addr) ==
    /\ owners[d] >= 1
    /\ \E k \in KernelOutcomes(Issued(connect_in(d, addr, NoK))) :
           CommitAddr("connect_in", d, addr, k, 0, connect_in(d, addr, k))

ConnectIn6(d, addr) ==
    /\ owners[d] >= 1
    /\ \E k \in KernelOutcomes(Issued(connect_in6(d, addr, NoK))) :
           CommitAddr("connect_in6", d, addr, k, 0, connect_in6(d, addr, k))

Listen(d, backlog) ==
    /\ owners[d] >= 1
    /\ \E k \in KernelOutcomes(Issued(listen(d, backlog, NoK))) :
           Commit("listen", d, k, 0, listen(d, backlog, k))

Accept(d) ==
    /\ build = "libc_apple"
    /\ owners[d] >= 1
    /\ \E k \in KernelOutcomes(Issued(accept(d, NoK, 0))) :
           \E t \in (IF k.fail THEN {0} ELSE ss_family_read(k)) :
               Commit("accept", d, k, t, accept(d, k, t))

Accept4(d, flags) ==
    /\ build # "libc_apple"
    /\ owners[d] >= 1
    /\ \E k \in KernelOutcomes(Issued(accept4(d, flags, NoK, 0))) :
           \E t \in (IF k.fail THEN {0} ELSE ss_family_read(k)) :
               Commit("accept4", d, k, t, accept4(d, flags, k, t))

ShutdownOp(d, how) ==
    /\ owners[d] >= 1
    /\ \E k \in KernelOutcomes(Issued(shutdown(d, how, NoK))) :
           Commit("shutdown", d, k, 0, shutdown(d, how, k))

SocketTypeOp(d) ==
    /\ owners[d] >= 1
    /\ \E k \in KernelOutcomes(Issued(socket_type(d, NoK, 0))) :
           \E ty \in (IF k.fail THEN {0} ELSE assume_init(k.opt)) :
               Commit("socket_type", d, k, ty, socket_type(d, k, ty))

\* The owner of a handle drops it: OwnedFd's destructor closes the descriptor.
Drop(d) ==
    /\ owners[d] >= 1
    /\ last' = [NoLast EXCEPT !.op = "drop", !.fd = d,
                              !.calls = <<close(d)>>, !.dropped = {d}]
    /\ owners' = [owners EXCEPT ![d] = @ - 1]
    /\ released' = [released EXCEPT ![d] = @ + 1]
    /\ ksock' = KernelClose(ksock, {d})
    /\ UNCHANGED <<build, kernel, nextFd>>

Next ==
    \/ \E domain \in SocketDomains, type_ \in SocketKinds :
           Socket(domain, type_, IPPROTO_IP)
    \/ \E d \in Fds, addr \in AnyUnixAddrs : BindUn(d, addr)
    \/ \E d \in Fds, addr \in AnyV4Addrs : BindIn(d, addr)
    \/ \E d \in Fds, addr \in AnyV6Addrs : BindIn6(d, addr)
    \/ \E d \in Fds, addr \in AnyUnixAddrs : ConnectUn(d, addr)
    \/ \E d \in Fds, addr \in AnyV4Addrs : ConnectIn(d, addr)
    \/ \E d \in Fds, addr \in AnyV6Addrs : ConnectIn6(d, addr)
    \/ \E d \in Fds, backlog \in Backlogs : Listen(d, backlog)
    \/ \E d \in Fds : Accept(d)
    \/ \E d \in Fds, flags \in FlagSets : Accept4(d, flags)
    \/ \E d \in Fds, how \in Shutdown : ShutdownOp(d, how)
    \/ \E d \in Fds : SocketTypeOp(d)
    \/ \E d \in Fds : Drop(d)

Spec == Init /\ [][Next]_vars

(***************************************************************************)
(* The same program on a Linux target, over the kernel that answers from   *)
(* its socket table.  Plain accept is compiled on ios/macos only.          *)
(***************************************************************************)
LinuxInit ==
    /\ build \in {"libc", "linux_raw"}
    /\ kernel = "linux"
    /\ nextFd = 1
    /\ owners = [d \in Fds |-> 0]
    /\ released = [d \in Fds |-> 0]
    /\ ksock = [d \in Fds |-> NoSock]
    /\ last = NoLast

LinuxNext ==
    \/ \E domain \in LinuxSocketDomains, type_ \in LinuxSocketKinds :
           Socket(domain, type_, IPPROTO_IP)
    \/ \E d \in Fds, addr \in UnixAddrs : BindUn(d, addr)
    \/ \E d \in Fds, addr \in V4Addrs : BindIn(d, addr)
    \/ \E d \in Fds, addr \in V6Addrs : BindIn6(d, addr)
    \/ \E d \in Fds, addr \in UnixAddrs : ConnectUn(d, addr)
    \/ \E d \in Fds, addr \in V4Addrs : ConnectIn(d, addr)
    \/ \E d \in Fds, addr \in V6Addrs : ConnectIn6(d, addr)
    \/ \E d \in Fds, backlog \in Backlogs : Listen(d, backlog)
    \/ \E d \in Fds, flags \in FlagSets : Accept4(d, flags)
    \/ \E d \in Fds, how \in Shutdown : ShutdownOp(d, how)
    \/ \E d \in Fds : SocketTypeOp(d)
    \/ \E d \in Fds : Drop(d)

LinuxSpec == LinuxInit /\ [][LinuxNext]_vars


(***************************************************************************)
(* Properties                                                              *)
(***************************************************************************)
IsAccept == last.op \in {"accept", "accept4"}

\* The three decoded families: tag, layout size, variant.
Families ==
    {[tag |-> AF_INET, size |-> SizeofSocketAddrV4, variant |-> "V4"],
     [tag |-> AF_INET6, size |-> SizeofSocketAddrV6, variant |-> "V6"],
     [tag |-> AF_LOCAL, size |-> SizeofSocketAddrUnix, variant |-> "Unix"]}

\* C1: when accept/accept4 succeeded in the kernel, the family tag read
\* selects one of the three families and the reported length is below the
\* size of that family's layout, the call panics on the length assertion,
\* yields no SocketAddr, and has interpreted nothing of the buffer beyond the
\* family tag.
C1_LengthEnforced ==
    (IsAccept /\ ~last.k.fail) =>
        \A f \in Families :
            (last.seen = f.tag /\ last.k.len < f.size) =>
                /\ last.res = Panic("length")
                /\ last.readEnd = SsFamilyEnd

C1_Witness ==
    /\ IsAccept
    /\ ~last.k.fail
    /\ last.seen = AF_INET6
    /\ last.k.len = SizeofSocketAddrV6 - 1
    /\ last.res = Panic("length")

\* C2: when accept/accept4 succeeded in the kernel and the family tag read is
\* none of AF_INET, AF_INET6, AF_LOCAL, the call panics in the default arm
\* and yields no SocketAddr variant.
C2_UnknownFamilyFails ==
    (IsAccept /\ ~last.k.fail /\ last.seen \notin {AF_INET, AF_INET6, AF_LOCAL}) =>
        /\ last.res = Panic("family")
        /\ last.res.variant \notin {"V4", "V6", "Unix"}

C2_Witness ==
    /\ IsAccept
    /\ ~last.k.fail
    /\ last.k.tag = AF_NETLINK
    /\ last.k.len = SizeofStorage
    /\ last.seen = AF_NETLINK
    /\ last.res = Panic("family")

\* C3: accept/accept4 interprets nothing of the raw address buffer when the
\* kernel call failed, and nothing at or beyond the reported length when it
\* succeeded, the family tag included.
C3_ReadWithinReported ==
    IsAccept =>
        IF last.k.fail THEN last.readEnd = 0 ELSE last.readEnd <= last.k.len

\* C4: when getsockopt succeeded with the size of SocketType and a value that
\* is no member's constant, socket_type does not return a SocketType.
C4_NoArbitrarySocketType ==
    (/\ last.op = "socket_type"
     /\ ~last.k.fail
     /\ last.k.len = SizeofSocketType
     /\ last.k.opt \notin SocketType) =>
        last.res.kind # "ok"

\* C5: when getsockopt succeeded with a size other than that of SocketType,
\* smaller or larger, socket_type panics on the size assertion, returns no
\* SocketType, and has interpreted nothing of the buffer.
C5_SizeMismatchFails ==
    (last.op = "socket_type" /\ ~last.k.fail /\ last.k.len # SizeofSocketType) =>
        /\ last.res = Panic("size")
        /\ last.readEnd = 0

C5_Witness ==
    /\ last.op = "socket_type"
    /\ ~last.k.fail
    /\ last.k.len = SizeofSocketType + 1
    /\ last.res = Panic("size")

\* C6: socket returns the kernel's error code unchanged and builds no handle
\* when the kernel call failed; when it succeeded it returns one handle
\* wrapping the descriptor the kernel returned, and that handle is the
\* descriptor's only owner.
C6_SocketResult ==
    last.op = "socket" =>
        IF last.k.fail
        THEN /\ last.res = Err(last.k.code)
             /\ last.created = {}
             /\ last.dropped = {}
        ELSE /\ last.res = OkFd(last.k.val)
             /\ last.created = {last.k.val}
             /\ last.dropped = {}
             /\ owners[last.k.val] = 1
             /\ released[last.k.val] = 0

C6_Witness ==
    /\ last.op = "socket"
    /\ last.k.fail
    /\ last.k.code = 22
    /\ last.res = Err(22)
    /\ nextFd = 2

\* C7: every descriptor the kernel returned from socket or accept is either
\* owned by exactly one live handle and not released, or owned by none and
\* released exactly once; descriptors not handed out have neither; an
\* operation that borrows a handle builds and drops none.
C7_ReleasedExactlyOnce ==
    /\ \A d \in Fds :
           IF d < nextFd
           THEN \/ owners[d] = 1 /\ released[d] = 0
                \/ owners[d] = 0 /\ released[d] = 1
           ELSE owners[d] = 0 /\ released[d] = 0
    /\ last.op \notin {"none", "socket", "accept", "accept4", "drop"} =>
           last.created = {} /\ last.dropped = {}
    /\ IsAccept => last.fd \notin last.dropped

C7_Witness ==
    /\ IsAccept
    /\ last.res.kind = "panic"
    /\ last.k.val \in Fds
    /\ owners[last.k.val] = 0
    /\ released[last.k.val] = 1

\* What the caller of a facade function can observe of it.
Visible(e) ==
    [res |-> e.res, created |-> e.created, dropped |-> e.dropped]

\* C8: for the kernel outcome of an accept4 call, the libc path and the
\* direct-syscall path have the same caller-visible outcomes: the same error
\* code, the same handle and SocketAddr variant, or the same panic.
C8_PathsAgree ==
    last.op = "accept4" =>
        LET flags == last.calls[1].args[1]
            seen == IF last.k.fail THEN {0} ELSE ss_family_read(last.k)
        IN  /\ {Visible(_accept4_libc(last.fd, flags, last.k, t)) : t \in seen}
                = {Visible(_accept4_linux_raw(last.fd, flags, last.k, t)) :
                       t \in seen}
            /\ Visible(last) \in
                   {Visible(_accept4_libc(last.fd, flags, last.k, t)) :
                        t \in seen}

C8_Witness ==
    /\ last.op = "accept4"
    /\ build = "linux_raw"
    /\ ~last.k.fail
    /\ last.k.len = SizeofSocketAddrUnix
    /\ last.res = OkAccept(last.k.val, "Unix")

\* The kernel operation of each facade operation.
KernelOp(op) ==
    CASE op \in {"bind_un", "bind_in", "bind_in6"} -> "bind"
      [] op \in {"connect_un", "connect_in", "connect_in6"} -> "connect"
      [] op = "socket_type" -> "getsockopt"
      [] OTHER -> op

\* C9: every facade operation calls its kernel operation exactly once, first,
\* and calls nothing else but the close of a handle it drops; when the kernel
\* call failed, the operation made no other call and returned the kernel's
\* error.
C9_OneCallNoRetry ==
    last.op \notin {"none", "drop"} =>
        /\ Len(last.calls) >= 1
        /\ last.calls[1].name = KernelOp(last.op)
        /\ \A i \in 2 .. Len(last.calls) : last.calls[i].name = "close"
        /\ last.k.fail =>
               /\ Len(last.calls) = 1
               /\ last.res = Err(last.k.code)

C9_Witness ==
    /\ last.op = "accept4"
    /\ last.k.fail
    /\ last.calls = <<KCall("accept4", last.fd, NoAddr, SizeofStorage,
                            <<SOCK_NONBLOCK + SOCK_CLOEXEC>>)>>
    /\ last.res = Err(11)

\* C10: over the "linux" kernel, an accept/accept4 on a listening Unix-domain
\* socket bound to a path with a backlog of 1, for which the kernel had a
\* pending connection and returned a new descriptor, returns that descriptor
\* in an owned handle together with an address of the Unix variant.
C10_UnixAcceptReturns ==
    (/\ IsAccept
     /\ ~last.k.fail
     /\ ksock[last.fd].family = AF_LOCAL
     /\ ksock[last.fd].listening
     /\ ksock[last.fd].backlog = 1
     /\ ksock[last.fd].bound \in {a.name : a \in UnixAddrs}) =>
        /\ last.res = OkAccept(last.k.val, "Unix")
        /\ owners[last.k.val] = 1

\* The layout size of the family of each bind and connect entry point.
EntryPointLen(op) ==
    CASE op \in {"bind_un", "connect_un"} -> SizeofSocketAddrUnix
      [] op \in {"bind_in", "connect_in"} -> SizeofSocketAddrV4
      [] op \in {"bind_in6", "connect_in6"} -> SizeofSocketAddrV6

\* C11: each of bind_un, bind_in, bind_in6, connect_un, connect_in,
\* connect_in6 passes to the kernel the handle and the address it was called
\* with, unchanged, and as the address length the size of the layout of its
\* own family.
C11_OwnFamilyLength ==
    last.op \in {"bind_un", "bind_in", "bind_in6",
                 "connect_un", "connect_in", "connect_in6"} =>
        /\ last.calls[1].fd = last.fd
        /\ last.calls[1].addr = last.addr
        /\ last.calls[1].addrlen = EntryPointLen(last.op)

C11_Witness ==
    /\ last.op = "bind_in6"
    /\ build = "libc"
    /\ last.addr = [family |-> AF_INET6, name |-> "fe80::1:80"]
    /\ last.calls[1].addr = last.addr
    /\ last.calls[1].addrlen = SizeofSocketAddrV6
    /\ last.res = OkUnit

====
